---- MODULE Spec2Model ----
(***************************************************************************)
(* The TravelMutualAid contract (src/unnamed/part_001) as a state machine. *)
(*                                                                         *)
(* One action per public function.  Every function is first written as a   *)
(* pure operator xxxTx(s, ...) that walks the body of the function on a    *)
(* copy s of the storage and returns the storage it has reached, the       *)
(* revert message of the first failing require ("" when there is none) and *)
(* the events emitted.  Commit then applies the EVM rule: a transaction    *)
(* that reverts leaves the storage it started from.                        *)
(*                                                                         *)
(* Fields that no condition of the contract reads and that no query        *)
(* derives anything from (title, description, comment, block.timestamp)    *)
(* are left out of the records.  The uint256 values stay far below 2^256,  *)
(* so they are integers.                                                   *)
(***************************************************************************)
EXTENDS Integers, Sequences, FiniteSets, TLC

\* ------------------------------------------------------------------ bounds

\* Spec: successful createRequest calls, successful submitReview calls.
MaxRequests == 1
MaxReviews == 2
\* SpecCredits: successful createRequest calls (two requests of cost 5
\* empty an account of 10 credits; a third one is then refused), successful
\* submitReview calls.
CreditsMaxRequests == 3
CreditsMaxReviews == 1
\* SpecTrust: successful createRequest calls, successful submitReview calls
\* (the average of three ratings need not be an integer).
TrustMaxRequests == 1
TrustMaxReviews == 3
\* SpecReviews: successful createRequest calls, successful submitReview
\* calls (a repeated review, and one in the other direction).
ReviewsMaxRequests == 1
ReviewsMaxReviews == 3

\* ------------------------------------------------------------------ inputs

\* address(0): the value of an unset address field; nobody sends from it.
ZERO == "0x0"
\* The accounts that send transactions.
Senders == {"alice", "bob", "carol"}
CreditsSenders == {"alice", "bob"}
\* Every address value a field or an argument can hold.
Addresses == Senders \cup {ZERO}
\* The keys of the requests mapping the model holds: 0, the ids the
\* specification with the most requests allocates, and the one after them.
AllIds == 0..(CreditsMaxRequests + 1)
\* _requestId arguments of the calls that are made.  createRequest allocates
\* 1, 2, ... in order, so id 1 is not allocated while requestCount = 0 and
\* is allocated afterwards.  (The claims evaluate the functions on every id
\* of AllIds.)
Ids == {1}
CreditsIds == {1}
\* _helpType arguments: the three codes of the schedule and one outside it.
HelpTypeInputs == {0, 1, 2, 3}
\* The same for SpecTrust: one code of the schedule and one outside it.
TrustHelpTypeInputs == {0, 3}
\* _rating arguments: below, inside and above 1..5.
RatingInputs == {0, 5, 6}
\* The same for SpecTrust: both ends of 1..5 and two ratings next to each
\* other.
TrustRatingInputs == {0, 1, 4, 5, 6}
\* The same for SpecCredits, where no balance depends on a rating: one
\* rating of 1..5 and one above.
CreditsRatingInputs == {5, 6}
\* The same for SpecReviews: both ends of 1..5 and one rating below.
ReviewsRatingInputs == {0, 1, 5}
\* _name and _location arguments.
NameInputs == {"Alice"}
LocationInputs == {"Paris"}

\* ------------------------------------------------------------------ state

VARIABLES
    users,           \* mapping(address => User)
    requests,        \* mapping(uint256 => Request)
    requestReviews,  \* mapping(uint256 => Review[])
    userReviews,     \* mapping(address => Review[])
    requestCount,    \* uint256
    userAddresses,   \* address[]
    everHelper       \* history: per id, every address the helper field held

vars == <<users, requests, requestReviews, userReviews, requestCount,
          userAddresses, everHelper>>

\* enum RequestStatus
Open == "Open"
Matched == "Matched"
Completed == "Completed"
Cancelled == "Cancelled"
RequestStatus == {Open, Matched, Completed, Cancelled}

\* The revert message of a transaction that did not revert.
OK == ""
\* The require messages of the contract, under the names of the error kinds.
AlreadyRegistered == "User already registered"
InvalidHelpType == "Invalid help type"
InsufficientCredit == "Insufficient credits"
RequestNotOpen == "Request not available"
SelfHelpForbidden == "Cannot help yourself"
NotAuthorized == "Not authorized"
RequestNotMatched == "Request not matched"
InvalidRating == "Rating must be 1-5"
InvalidReviewPair == "Invalid review"
RequestNotCompleted == "Request not completed"
\* No require of the contract tests whether a request id was allocated.
RequestNotFound == "Request not found"

\* The value of users[a] for a key never written.
DefaultUser ==
    [name |-> "", location |-> "", trustScore |-> 0, totalHelps |-> 0,
     totalReceived |-> 0, credits |-> 0, exists |-> FALSE]

\* The value of requests[i] for a key never written.
DefaultRequest ==
    [id |-> 0, requester |-> ZERO, location |-> "", status |-> Open,
     helper |-> ZERO, helpType |-> 0]

\* The User literal with "credits: 0".
NewUser_NoCredits(name, location) ==
    [name |-> name, location |-> location, trustScore |-> 50,
     totalHelps |-> 0, totalReceived |-> 0, credits |-> 0, exists |-> TRUE]

\* The User literal of registerUser, createRequest and acceptRequest.
NewUser(name, location) ==
    [name |-> name, location |-> location, trustScore |-> 50,
     totalHelps |-> 0, totalReceived |-> 0, credits |-> 10, exists |-> TRUE]

CREDIT_REWARD == 1

\* creditCosts as the constructor fills it; an unwritten key reads 0.
creditCosts(helpType) ==
    CASE helpType = 0 -> 2
      [] helpType = 1 -> 5
      [] helpType = 2 -> 3
      [] OTHER -> 0

\* The contract storage as one value.
Storage ==
    [users |-> users, requests |-> requests,
     requestReviews |-> requestReviews, userReviews |-> userReviews,
     requestCount |-> requestCount, userAddresses |-> userAddresses]

\* The outcome of running a function body: a failing require, or the end.
Revert(s, message) == [err |-> message, st |-> s, events |-> <<>>]
Success(s, events) == [err |-> OK, st |-> s, events |-> events]

\* A failed require that returns instead of reverting: what the body wrote
\* before it stays.
Commit_NoRollback(pre, res) == res.st

\* A reverted transaction changes nothing.
Commit(pre, res) == IF res.err = OK THEN res.st ELSE pre

\* "if (!users[msg.sender].exists) { users[msg.sender] = User(...); push }"
\* Auto-registration without "if (!users[msg.sender].exists)".
AutoRegister_Always(s, sender, location) ==
    [s EXCEPT !.users[sender] = NewUser("", location),
              !.userAddresses = Append(@, sender)]

AutoRegister(s, sender, location) ==
    IF ~s.users[sender].exists
    THEN [s EXCEPT !.users[sender] = NewUser("", location),
                   !.userAddresses = Append(@, sender)]
    ELSE s

\* registerUser without "userAddresses.push(msg.sender)".
registerUserTx_NoPush(s, sender, name, location) ==
    IF s.users[sender].exists
    THEN Revert(s, AlreadyRegistered)
    ELSE Success([s EXCEPT !.users[sender] = NewUser(name, location)],
                 <<<<"UserRegistered", sender, name>>>>)

\* registerUser that writes over an existing account.
registerUserTx_Overwrites(s, sender, name, location) ==
    IF s.users[sender].exists
    THEN Success([s EXCEPT !.users[sender] = NewUser(name, location)],
                 <<<<"UserRegistered", sender, name>>>>)
    ELSE Success([s EXCEPT !.users[sender] = NewUser(name, location),
                           !.userAddresses = Append(@, sender)],
                 <<<<"UserRegistered", sender, name>>>>)

registerUserTx(s, sender, name, location) ==
    IF s.users[sender].exists
    THEN Revert(s, AlreadyRegistered)
    ELSE Success([s EXCEPT !.users[sender] = NewUser(name, location),
                           !.userAddresses = Append(@, sender)],
                 <<<<"UserRegistered", sender>>>>)

\* createRequest without "require(users[msg.sender].credits >= cost)".
createRequestTx_NoCreditCheck(s, sender, location, helpType) ==
    LET s1 == AutoRegister(s, sender, location)
        cost == creditCosts(helpType)
    IN  IF ~(cost > 0) THEN Revert(s1, InvalidHelpType)
        ELSE
        LET n == s1.requestCount + 1
            s2 == [s1 EXCEPT
                     !.users[sender].credits = @ - cost,
                     !.requestCount = n,
                     !.requests[n] =
                         [id |-> n, requester |-> sender,
                          location |-> location, status |-> Open,
                          helper |-> ZERO, helpType |-> helpType],
                     !.users[sender].totalReceived = @ + 1]
        IN  Success(s2, <<<<"RequestCreated", n, sender>>>>)

\* createRequest without "require(cost > 0)".
createRequestTx_NoHelpTypeCheck(s, sender, location, helpType) ==
    LET s1 == AutoRegister(s, sender, location)
        cost == creditCosts(helpType)
    IN  IF ~(s1.users[sender].credits >= cost)
        THEN Revert(s1, InsufficientCredit)
        ELSE
        LET n == s1.requestCount + 1
            s2 == [s1 EXCEPT
                     !.users[sender].credits = @ - cost,
                     !.requestCount = n,
                     !.requests[n] =
                         [id |-> n, requester |-> sender,
                          location |-> location, status |-> Open,
                          helper |-> ZERO, helpType |-> helpType],
                     !.users[sender].totalReceived = @ + 1]
        IN  Success(s2, <<<<"RequestCreated", n, sender>>>>)

\* createRequest that stores the record under the counter's value before
\* "requestCount++".
createRequestTx_KeyBeforeIncrement(s, sender, location, helpType) ==
    LET s1 == AutoRegister(s, sender, location)
        cost == creditCosts(helpType)
    IN  IF ~(cost > 0) THEN Revert(s1, InvalidHelpType)
        ELSE IF ~(s1.users[sender].credits >= cost)
        THEN Revert(s1, InsufficientCredit)
        ELSE
        LET n == s1.requestCount
            s2 == [s1 EXCEPT
                     !.users[sender].credits = @ - cost,
                     !.requestCount = n + 1,
                     !.requests[n] =
                         [id |-> n, requester |-> sender,
                          location |-> location, status |-> Open,
                          helper |-> ZERO, helpType |-> helpType],
                     !.users[sender].totalReceived = @ + 1]
        IN  Success(s2, <<<<"RequestCreated", n, sender>>>>)

\* createRequest with "require(credits > cost)".
createRequestTx_StrictBalance(s, sender, location, helpType) ==
    LET s1 == AutoRegister(s, sender, location)
        cost == creditCosts(helpType)
    IN  IF ~(cost > 0) THEN Revert(s1, InvalidHelpType)
        ELSE IF ~(s1.users[sender].credits > cost)
        THEN Revert(s1, InsufficientCredit)
        ELSE
        LET n == s1.requestCount + 1
            s2 == [s1 EXCEPT
                     !.users[sender].credits = @ - cost,
                     !.requestCount = n,
                     !.requests[n] =
                         [id |-> n, requester |-> sender,
                          location |-> location, status |-> Open,
                          helper |-> ZERO, helpType |-> helpType],
                     !.users[sender].totalReceived = @ + 1]
        IN  Success(s2, <<<<"RequestCreated", n, sender>>>>)

\* createRequest without "users[msg.sender].totalReceived++".
createRequestTx_NoReceivedCount(s, sender, location, helpType) ==
    LET s1 == AutoRegister(s, sender, location)
        cost == creditCosts(helpType)
    IN  IF ~(cost > 0) THEN Revert(s1, InvalidHelpType)
        ELSE IF ~(s1.users[sender].credits >= cost)
        THEN Revert(s1, InsufficientCredit)
        ELSE
        LET n == s1.requestCount + 1
            s2 == [s1 EXCEPT
                     !.users[sender].credits = @ - cost,
                     !.requestCount = n,
                     !.requests[n] =
                         [id |-> n, requester |-> sender,
                          location |-> location, status |-> Open,
                          helper |-> ZERO, helpType |-> helpType]]
        IN  Success(s2, <<<<"RequestCreated", n, sender>>>>)

createRequestTx(s, sender, location, helpType) ==
    LET s1 == AutoRegister(s, sender, location)
        cost == creditCosts(helpType)
    IN  IF ~(cost > 0) THEN Revert(s1, InvalidHelpType)
        ELSE IF ~(s1.users[sender].credits >= cost)
        THEN Revert(s1, InsufficientCredit)
        ELSE
        LET n == s1.requestCount + 1
            s2 == [s1 EXCEPT
                     !.users[sender].credits = @ - cost,
                     !.requestCount = n,
                     !.requests[n] =
                         [id |-> n, requester |-> sender,
                          location |-> location, status |-> Open,
                          helper |-> ZERO, helpType |-> helpType],
                     !.users[sender].totalReceived = @ + 1]
        IN  Success(s2, <<<<"RequestCreated", n, sender>>>>)

\* acceptRequest without "require(request.requester != msg.sender)".
acceptRequestTx_NoSelfCheck(s, sender, requestId) ==
    LET s1 == AutoRegister(s, sender, "")
        request == s1.requests[requestId]
    IN  IF request.status # Open THEN Revert(s1, RequestNotOpen)
        ELSE
        LET s2 == [s1 EXCEPT
                     !.requests[requestId].helper = sender,
                     !.requests[requestId].status = Matched,
                     !.users[sender].totalHelps = @ + 1,
                     !.users[sender].credits = @ + CREDIT_REWARD]
        IN  Success(s2, <<<<"RequestMatched", requestId, sender>>>>)

\* acceptRequest that requires its sender to hold a credit.
acceptRequestTx_NeedsCredit(s, sender, requestId) ==
    LET s1 == AutoRegister(s, sender, "")
        request == s1.requests[requestId]
    IN  IF request.status # Open THEN Revert(s1, RequestNotOpen)
        ELSE IF request.requester = sender
        THEN Revert(s1, SelfHelpForbidden)
        ELSE IF ~(s1.users[sender].credits >= CREDIT_REWARD)
        THEN Revert(s1, InsufficientCredit)
        ELSE
        LET s2 == [s1 EXCEPT
                     !.requests[requestId].helper = sender,
                     !.requests[requestId].status = Matched,
                     !.users[sender].totalHelps = @ + 1,
                     !.users[sender].credits = @ + CREDIT_REWARD]
        IN  Success(s2, <<<<"RequestMatched", requestId, sender>>>>)

\* acceptRequest without "users[msg.sender].credits += CREDIT_REWARD".
acceptRequestTx_NoReward(s, sender, requestId) ==
    LET s1 == AutoRegister(s, sender, "")
        request == s1.requests[requestId]
    IN  IF request.status # Open THEN Revert(s1, RequestNotOpen)
        ELSE IF request.requester = sender
        THEN Revert(s1, SelfHelpForbidden)
        ELSE
        LET s2 == [s1 EXCEPT
                     !.requests[requestId].helper = sender,
                     !.requests[requestId].status = Matched,
                     !.users[sender].totalHelps = @ + 1]
        IN  Success(s2, <<<<"RequestMatched", requestId, sender>>>>)

\* acceptRequest that takes the reward from the requester's balance.
acceptRequestTx_RequesterPays(s, sender, requestId) ==
    LET s1 == AutoRegister(s, sender, "")
        request == s1.requests[requestId]
    IN  IF request.status # Open THEN Revert(s1, RequestNotOpen)
        ELSE IF request.requester = sender
        THEN Revert(s1, SelfHelpForbidden)
        ELSE
        LET s2 == [s1 EXCEPT
                     !.requests[requestId].helper = sender,
                     !.requests[requestId].status = Matched,
                     !.users[sender].totalHelps = @ + 1,
                     !.users[sender].credits = @ + CREDIT_REWARD,
                     !.users[request.requester].credits = @ - CREDIT_REWARD]
        IN  Success(s2, <<<<"RequestMatched", requestId, sender>>>>)

acceptRequestTx(s, sender, requestId) ==
    LET s1 == AutoRegister(s, sender, "")
        request == s1.requests[requestId]
    IN  IF request.status # Open THEN Revert(s1, RequestNotOpen)
        ELSE IF request.requester = sender
        THEN Revert(s1, SelfHelpForbidden)
        ELSE
        LET s2 == [s1 EXCEPT
                     !.requests[requestId].helper = sender,
                     !.requests[requestId].status = Matched,
                     !.users[sender].totalHelps = @ + 1,
                     !.users[sender].credits = @ + CREDIT_REWARD]
        IN  Success(s2, <<<<"RequestMatched", requestId, sender>>>>)

\* completeRequest with its two requires in the other order.
completeRequestTx_StatusFirst(s, sender, requestId) ==
    LET request == s.requests[requestId]
    IN  IF request.status # Matched
        THEN Revert(s, RequestNotMatched)
        ELSE IF ~(sender = request.requester \/ sender = request.helper)
        THEN Revert(s, NotAuthorized)
        ELSE Success([s EXCEPT !.requests[requestId].status = Completed],
                     <<<<"RequestCompleted", requestId>>>>)

\* completeRequest without "require(request.status == Matched)".
completeRequestTx_NoStatusCheck(s, sender, requestId) ==
    LET request == s.requests[requestId]
    IN  IF ~(sender = request.requester \/ sender = request.helper)
        THEN Revert(s, NotAuthorized)
        ELSE Success([s EXCEPT !.requests[requestId].status = Completed],
                     <<<<"RequestCompleted", requestId>>>>)

\* completeRequest that pays the helper the reward again.
completeRequestTx_PaysReward(s, sender, requestId) ==
    LET request == s.requests[requestId]
    IN  IF ~(sender = request.requester \/ sender = request.helper)
        THEN Revert(s, NotAuthorized)
        ELSE IF request.status # Matched
        THEN Revert(s, RequestNotMatched)
        ELSE Success([s EXCEPT !.requests[requestId].status = Completed,
                               !.users[request.helper].credits =
                                   @ + CREDIT_REWARD],
                     <<<<"RequestCompleted", requestId>>>>)

completeRequestTx(s, sender, requestId) ==
    LET request == s.requests[requestId]
    IN  IF ~(sender = request.requester \/ sender = request.helper)
        THEN Revert(s, NotAuthorized)
        ELSE IF request.status # Matched
        THEN Revert(s, RequestNotMatched)
        ELSE Success([s EXCEPT !.requests[requestId].status = Completed],
                     <<<<"RequestCompleted", requestId>>>>)

RECURSIVE SumRatings(_)
RECURSIVE openRequests(_, _)
RECURSIVE openRequests_SkipsLast(_, _)
RECURSIVE userRequests(_, _, _)
RECURSIVE userRequests_RequesterOnly(_, _, _)
SumRatings(reviews) ==
    IF reviews = <<>> THEN 0
    ELSE Head(reviews).rating + SumRatings(Tail(reviews))

\* _updateTrustScore without the factor 20.
_updateTrustScore_NoScale(s, user) ==
    LET reviews == s.userReviews[user]
    IN  IF Len(reviews) = 0 THEN s
        ELSE [s EXCEPT !.users[user].trustScore =
                           SumRatings(reviews) \div Len(reviews)]

\* _updateTrustScore as a running average of the previous score and the
\* newest rating.
_updateTrustScore_Incremental(s, user) ==
    LET reviews == s.userReviews[user]
    IN  IF Len(reviews) = 0 THEN s
        ELSE [s EXCEPT !.users[user].trustScore =
                           (@ + reviews[Len(reviews)].rating * 20) \div 2]

_updateTrustScore(s, user) ==
    LET reviews == s.userReviews[user]
    IN  IF Len(reviews) = 0 THEN s
        ELSE [s EXCEPT !.users[user].trustScore =
                           (SumRatings(reviews) * 20) \div Len(reviews)]

\* submitReview without "require(_rating >= 1 && _rating <= 5)".
submitReviewTx_NoRatingCheck(s, sender, requestId, reviewed, rating) ==
    LET request == s.requests[requestId]
    IN  IF ~(\/ sender = request.requester /\ reviewed = request.helper
             \/ sender = request.helper /\ reviewed = request.requester)
        THEN Revert(s, InvalidReviewPair)
        ELSE IF request.status # Completed
        THEN Revert(s, RequestNotCompleted)
        ELSE
        LET review == [reviewer |-> sender, reviewed |-> reviewed,
                       requestId |-> requestId, rating |-> rating]
            s1 == [s EXCEPT !.requestReviews[requestId] = Append(@, review),
                            !.userReviews[reviewed] = Append(@, review)]
        IN  Success(_updateTrustScore(s1, reviewed),
                    <<<<"ReviewSubmitted", requestId, sender, reviewed, rating>>>>)

\* submitReview that pays its sender the reward.
submitReviewTx_RewardsReviewer(s, sender, requestId, reviewed, rating) ==
    LET request == s.requests[requestId]
    IN  IF ~(rating >= 1 /\ rating <= 5)
        THEN Revert(s, InvalidRating)
        ELSE IF ~(\/ sender = request.requester /\ reviewed = request.helper
                  \/ sender = request.helper /\ reviewed = request.requester)
        THEN Revert(s, InvalidReviewPair)
        ELSE IF request.status # Completed
        THEN Revert(s, RequestNotCompleted)
        ELSE
        LET review == [reviewer |-> sender, reviewed |-> reviewed,
                       requestId |-> requestId, rating |-> rating]
            s1 == [s EXCEPT !.requestReviews[requestId] = Append(@, review),
                            !.userReviews[reviewed] = Append(@, review),
                            !.users[sender].credits = @ + CREDIT_REWARD]
        IN  Success(_updateTrustScore(s1, reviewed),
                    <<<<"ReviewSubmitted", requestId, sender, reviewed, rating>>>>)

\* submitReview that refuses a second review of the request by its sender.
submitReviewTx_OncePerReviewer(s, sender, requestId, reviewed, rating) ==
    LET request == s.requests[requestId]
        earlier == s.requestReviews[requestId]
    IN  IF ~(rating >= 1 /\ rating <= 5)
        THEN Revert(s, InvalidRating)
        ELSE IF ~(\/ sender = request.requester /\ reviewed = request.helper
                  \/ sender = request.helper /\ reviewed = request.requester)
        THEN Revert(s, InvalidReviewPair)
        ELSE IF request.status # Completed
        THEN Revert(s, RequestNotCompleted)
        ELSE IF \E k \in 1..Len(earlier) : earlier[k].reviewer = sender
        THEN Revert(s, InvalidReviewPair)
        ELSE
        LET review == [reviewer |-> sender, reviewed |-> reviewed,
                       requestId |-> requestId, rating |-> rating]
            s1 == [s EXCEPT !.requestReviews[requestId] = Append(@, review),
                            !.userReviews[reviewed] = Append(@, review)]
        IN  Success(_updateTrustScore(s1, reviewed),
                    <<<<"ReviewSubmitted", requestId, sender, reviewed, rating>>>>)

\* submitReview without "userReviews[_reviewed].push(review)".
submitReviewTx_RequestIndexOnly(s, sender, requestId, reviewed, rating) ==
    LET request == s.requests[requestId]
    IN  IF ~(rating >= 1 /\ rating <= 5)
        THEN Revert(s, InvalidRating)
        ELSE IF ~(\/ sender = request.requester /\ reviewed = request.helper
                  \/ sender = request.helper /\ reviewed = request.requester)
        THEN Revert(s, InvalidReviewPair)
        ELSE IF request.status # Completed
        THEN Revert(s, RequestNotCompleted)
        ELSE
        LET review == [reviewer |-> sender, reviewed |-> reviewed,
                       requestId |-> requestId, rating |-> rating]
            s1 == [s EXCEPT !.requestReviews[requestId] = Append(@, review)]
        IN  Success(_updateTrustScore(s1, reviewed),
                    <<<<"ReviewSubmitted", requestId, sender, reviewed, rating>>>>)

\* submitReview without "require(request.status == Completed)".
submitReviewTx_NoStatusCheck(s, sender, requestId, reviewed, rating) ==
    LET request == s.requests[requestId]
    IN  IF ~(rating >= 1 /\ rating <= 5)
        THEN Revert(s, InvalidRating)
        ELSE IF ~(\/ sender = request.requester /\ reviewed = request.helper
                  \/ sender = request.helper /\ reviewed = request.requester)
        THEN Revert(s, InvalidReviewPair)
        ELSE
        LET review == [reviewer |-> sender, reviewed |-> reviewed,
                       requestId |-> requestId, rating |-> rating]
            s1 == [s EXCEPT !.requestReviews[requestId] = Append(@, review),
                            !.userReviews[reviewed] = Append(@, review)]
        IN  Success(_updateTrustScore(s1, reviewed),
                    <<<<"ReviewSubmitted", requestId, sender, reviewed, rating>>>>)

\* submitReview that files the review under its author and recomputes the
\* author's score.
submitReviewTx_ScoresReviewer(s, sender, requestId, reviewed, rating) ==
    LET request == s.requests[requestId]
    IN  IF ~(rating >= 1 /\ rating <= 5)
        THEN Revert(s, InvalidRating)
        ELSE IF ~(\/ sender = request.requester /\ reviewed = request.helper
                  \/ sender = request.helper /\ reviewed = request.requester)
        THEN Revert(s, InvalidReviewPair)
        ELSE IF request.status # Completed
        THEN Revert(s, RequestNotCompleted)
        ELSE
        LET review == [reviewer |-> sender, reviewed |-> reviewed,
                       requestId |-> requestId, rating |-> rating]
            s1 == [s EXCEPT !.requestReviews[requestId] = Append(@, review),
                            !.userReviews[sender] = Append(@, review)]
        IN  Success(_updateTrustScore(s1, sender),
                    <<<<"ReviewSubmitted", requestId, sender, reviewed, rating>>>>)

submitReviewTx(s, sender, requestId, reviewed, rating) ==
    LET request == s.requests[requestId]
    IN  IF ~(rating >= 1 /\ rating <= 5)
        THEN Revert(s, InvalidRating)
        ELSE IF ~(\/ sender = request.requester /\ reviewed = request.helper
                  \/ sender = request.helper /\ reviewed = request.requester)
        THEN Revert(s, InvalidReviewPair)
        ELSE IF request.status # Completed
        THEN Revert(s, RequestNotCompleted)
        ELSE
        LET review == [reviewer |-> sender, reviewed |-> reviewed,
                       requestId |-> requestId, rating |-> rating]
            s1 == [s EXCEPT !.requestReviews[requestId] = Append(@, review),
                            !.userReviews[reviewed] = Append(@, review)]
        IN  Success(_updateTrustScore(s1, reviewed),
                    <<<<"ReviewSubmitted", requestId, sender, reviewed, rating>>>>)

\* ---------------------------------------------------------------- queries

\* A view function: its value, and the storage it leaves as it found it.
View(s, value) == [err |-> OK, st |-> s, value |-> value]

getCreditCost(s, helpType) == View(s, creditCosts(helpType))

\* The second loop of getOpenRequests with "i < requestCount".
openRequests_SkipsLast(s, i) ==
    IF ~(i < s.requestCount) THEN <<>>
    ELSE (IF s.requests[i].status = Open THEN <<s.requests[i]>> ELSE <<>>)
             \o openRequests_SkipsLast(s, i + 1)

\* The second loop of getOpenRequests from index i on: the records it
\* copies to the array, in the order of the copies.
openRequests(s, i) ==
    IF ~(i <= s.requestCount) THEN <<>>
    ELSE (IF s.requests[i].status = Open THEN <<s.requests[i]>> ELSE <<>>)
             \o openRequests(s, i + 1)

getOpenRequests(s) == View(s, openRequests(s, 1))

\* The second loop of getUserRequests without "|| requests[i].helper ==
\* _user".
userRequests_RequesterOnly(s, user, i) ==
    IF ~(i <= s.requestCount) THEN <<>>
    ELSE (IF s.requests[i].requester = user
          THEN <<s.requests[i]>> ELSE <<>>)
             \o userRequests_RequesterOnly(s, user, i + 1)

\* The second loop of getUserRequests from index i on: the records it
\* copies to the array, in the order of the copies.
userRequests(s, user, i) ==
    IF ~(i <= s.requestCount) THEN <<>>
    ELSE (IF s.requests[i].requester = user \/ s.requests[i].helper = user
          THEN <<s.requests[i]>> ELSE <<>>)
             \o userRequests(s, user, i + 1)

getUserRequests(s, user) == View(s, userRequests(s, user, 1))

\* ---------------------------------------------------------------- actions

\* The contract compares addresses for equality only, so a run and its
\* image under a renaming of the senders are the same run.  One of each
\* class is kept: the senders get their accounts in the order of Rank.  (A
\* sender without an account has changed nothing yet: every function either
\* gives its sender an account or succeeds only for the requester or helper
\* of a request, who have one.)
Rank(a) ==
    CASE a = "alice" -> 1 [] a = "bob" -> 2 [] a = "carol" -> 3 [] OTHER -> 0

Callers(S) ==
    {a \in S : \A b \in S : Rank(b) < Rank(a) => users[b].exists}

\* Number of reviews stored so far.
RECURSIVE TotalReviews(_, _)
TotalReviews(rr, ids) ==
    IF ids = {} THEN 0
    ELSE LET i == CHOOSE x \in ids : TRUE
         IN  Len(rr[i]) + TotalReviews(rr, ids \ {i})

\* The storage after the transaction; the history is extended.
Apply(res) ==
    LET post == Commit(Storage, res)
    IN  /\ users' = post.users
        /\ requests' = post.requests
        /\ requestReviews' = post.requestReviews
        /\ userReviews' = post.userReviews
        /\ requestCount' = post.requestCount
        /\ userAddresses' = post.userAddresses
        /\ everHelper' =
               [i \in AllIds |-> everHelper[i] \cup
                                     ({post.requests[i].helper} \ {ZERO})]

registerUser(S) ==
    \E sender \in Callers(S), name \in NameInputs,
       location \in LocationInputs :
        Apply(registerUserTx(Storage, sender, name, location))

createRequest(S, H, maxRequests) ==
    \E sender \in Callers(S), location \in LocationInputs,
       helpType \in H :
        LET res == createRequestTx(Storage, sender, location, helpType)
        IN  /\ res.err = OK => requestCount < maxRequests
            /\ Apply(res)

acceptRequest(S, I) ==
    \E sender \in Callers(S), requestId \in I :
        Apply(acceptRequestTx(Storage, sender, requestId))

completeRequest(S, I) ==
    \E sender \in Callers(S), requestId \in I :
        Apply(completeRequestTx(Storage, sender, requestId))

submitReview(S, I, R, maxReviews) ==
    \E sender \in Callers(S), requestId \in I, reviewed \in S \cup {ZERO},
       rating \in R :
        LET res == submitReviewTx(Storage, sender, requestId, reviewed, rating)
        IN  /\ res.err = OK => TotalReviews(requestReviews, AllIds) < maxReviews
            /\ Apply(res)

\* The storage after the constructor.
Init ==
    /\ users = [a \in Addresses |-> DefaultUser]
    /\ requests = [i \in AllIds |-> DefaultRequest]
    /\ requestReviews = [i \in AllIds |-> <<>>]
    /\ userReviews = [a \in Addresses |-> <<>>]
    /\ requestCount = 0
    /\ userAddresses = <<>>
    /\ everHelper = [i \in AllIds |-> {}]

\* Three senders; at most MaxRequests requests and MaxReviews reviews.
Next ==
    \/ registerUser(Senders)
    \/ createRequest(Senders, HelpTypeInputs, MaxRequests)
    \/ acceptRequest(Senders, Ids)
    \/ completeRequest(Senders, Ids)
    \/ submitReview(Senders, Ids, RatingInputs, MaxReviews)

Spec == Init /\ [][Next]_vars

\* Two senders; at most CreditsMaxRequests requests, of which the first is
\* accepted, completed and reviewed, and CreditsMaxReviews reviews.
NextCredits ==
    \/ registerUser(CreditsSenders)
    \/ createRequest(CreditsSenders, HelpTypeInputs, CreditsMaxRequests)
    \/ acceptRequest(CreditsSenders, CreditsIds)
    \/ completeRequest(CreditsSenders, CreditsIds)
    \/ submitReview(CreditsSenders, CreditsIds, CreditsRatingInputs,
                    CreditsMaxReviews)

SpecCredits == Init /\ [][NextCredits]_vars

\* Two senders; at most TrustMaxRequests requests, of help type 0, and
\* TrustMaxReviews reviews, with the ratings of TrustRatingInputs.
NextTrust ==
    \/ registerUser(CreditsSenders)
    \/ createRequest(CreditsSenders, TrustHelpTypeInputs, TrustMaxRequests)
    \/ acceptRequest(CreditsSenders, Ids)
    \/ completeRequest(CreditsSenders, Ids)
    \/ submitReview(CreditsSenders, Ids, TrustRatingInputs, TrustMaxReviews)

SpecTrust == Init /\ [][NextTrust]_vars

\* Two senders; at most ReviewsMaxRequests requests, of help type 0, and
\* ReviewsMaxReviews reviews, with the ratings of ReviewsRatingInputs.
NextReviews ==
    \/ registerUser(CreditsSenders)
    \/ createRequest(CreditsSenders, TrustHelpTypeInputs, ReviewsMaxRequests)
    \/ acceptRequest(CreditsSenders, Ids)
    \/ completeRequest(CreditsSenders, Ids)
    \/ submitReview(CreditsSenders, Ids, ReviewsRatingInputs,
                    ReviewsMaxReviews)

SpecReviews == Init /\ [][NextReviews]_vars

\* ----------------------------------------------------------------- claims

\* Whether createRequest allocated the id: 1..requestCount.
Allocated(id) == id >= 1 /\ id <= requestCount

\* Whether sender is the requester or the helper the record of id names.
Party(sender, id) ==
    sender = requests[id].requester \/ sender = requests[id].helper

\* C1: after any sequence of commands, failed or not, every account's
\* credit balance is >= 0.
C1_BalanceNonNegative == \A a \in Addresses : users[a].credits >= 0

\* An account that two requests of cost 5 have emptied, so that the next
\* createRequest is refused.
C1_Witness ==
    \E a \in Senders :
        /\ users[a].exists
        /\ users[a].credits = 0
        /\ users[a].totalReceived = 2
        /\ createRequestTx(Storage, a, "Paris", 0).err = InsufficientCredit

\* C2: acceptRequest with an id that createRequest never allocated (0, or
\* above requestCount) fails with RequestNotFound and changes nothing.
C2_UnknownIdRejected ==
    \A sender \in Senders, id \in AllIds :
        ~Allocated(id) =>
            LET res == acceptRequestTx(Storage, sender, id)
            IN  /\ res.err = RequestNotFound
                /\ Commit(Storage, res) = Storage

\* C3: once an acceptRequest on an id has succeeded, every later
\* acceptRequest on that id fails with RequestNotOpen, so at most one
\* address is ever recorded as the helper of the id.
C3_SingleMatch ==
    \A id \in AllIds :
        everHelper[id] # {} =>
            /\ Cardinality(everHelper[id]) <= 1
            /\ \A sender \in Senders :
                   acceptRequestTx(Storage, sender, id).err = RequestNotOpen

\* C4: the helper of an id is unset exactly while its status is Open, and a
\* helper once recorded never changes and never becomes unset again.
C4_HelperSetOnce ==
    [][\A id \in AllIds :
           /\ (requests[id].helper = ZERO) <=> (requests[id].status = Open)
           /\ requests[id].helper # ZERO =>
                  requests'[id].helper = requests[id].helper]_vars

StatusOrder(status) ==
    CASE status = Open -> 0
      [] status = Matched -> 1
      [] status = Completed -> 2
      [] OTHER -> 3

\* C5: the status of an id only moves forward along Open, Matched,
\* Completed; a Completed record is never changed again; no record is ever
\* Cancelled.
C5_StatusForward ==
    [][\A id \in AllIds :
           /\ StatusOrder(requests'[id].status)
                  >= StatusOrder(requests[id].status)
           /\ requests[id].status = Completed => requests'[id] = requests[id]
           /\ requests[id].status # Cancelled]_vars

\* C6: a createRequest that fails (help type outside the schedule, or a
\* balance below the cost) leaves the requester's balance, the request
\* counter and the request records as they were.
C6_CreateRequestAtomic ==
    \A sender \in Senders, location \in LocationInputs,
       helpType \in HelpTypeInputs :
        LET res == createRequestTx(Storage, sender, location, helpType)
            post == Commit(Storage, res)
            cost == creditCosts(helpType)
        IN  \/ res.err # OK
            \/ cost = 0
            \/ users[sender].exists /\ users[sender].credits < cost
            => /\ res.err \in {InvalidHelpType, InsufficientCredit}
               /\ post.users[sender].credits = users[sender].credits
               /\ post.requestCount = requestCount
               /\ post.requests = requests

\* An account with balance 3 (10 - 5 - 2) whose createRequest of cost 5 is
\* refused.
C6_Witness ==
    \E a \in Senders :
        /\ users[a].credits = 3
        /\ requestCount = 2
        /\ createRequestTx(Storage, a, "Paris", 1).err = InsufficientCredit

\* Some call with arguments of the model succeeds and ends in storage post.
SomeCallYields(post) ==
    \/ \E sender \in Senders, name \in NameInputs,
          location \in LocationInputs :
           LET res == registerUserTx(Storage, sender, name, location)
           IN  res.err = OK /\ res.st = post
    \/ \E sender \in Senders, location \in LocationInputs,
          helpType \in HelpTypeInputs :
           LET res == createRequestTx(Storage, sender, location, helpType)
           IN  res.err = OK /\ res.st = post
    \/ \E sender \in Senders, id \in AllIds :
           LET res == acceptRequestTx(Storage, sender, id)
           IN  res.err = OK /\ res.st = post
    \/ \E sender \in Senders, id \in AllIds :
           LET res == completeRequestTx(Storage, sender, id)
           IN  res.err = OK /\ res.st = post
    \/ \E sender \in Senders, id \in AllIds, reviewed \in Addresses,
          rating \in RatingInputs :
           LET res == submitReviewTx(Storage, sender, id, reviewed, rating)
           IN  res.err = OK /\ res.st = post

\* C7: a failed command leaves accounts, requests, reviews and the request
\* counter unchanged, and leaves no auto-registered account behind: every
\* step either changes nothing of the storage or ends in the storage of a
\* command that succeeded.
C7_FailedCommandsChangeNothing ==
    [][Storage' = Storage \/ SomeCallYields(Storage')]_vars

\* A sender without an account, and a request that is no longer Open: the
\* sender's acceptRequest writes the account and then fails its require.
C7_Witness ==
    \E sender \in Senders, id \in AllIds :
        /\ ~users[sender].exists
        /\ Allocated(id)
        /\ requests[id].status = Matched
        /\ LET res == acceptRequestTx(Storage, sender, id)
           IN  /\ res.err = RequestNotOpen
               /\ res.st.users[sender].exists

\* C8: acceptRequest sent by the requester of the request fails with
\* SelfHelpForbidden, whatever the status of the request.
C8_SelfHelpWhateverStatus ==
    \A sender \in Senders, id \in AllIds :
        requests[id].requester = sender =>
            acceptRequestTx(Storage, sender, id).err = SelfHelpForbidden

\* C8 as amended: acceptRequest sent by the requester of the request always
\* fails, with SelfHelpForbidden while the request is Open and with
\* RequestNotOpen once it is Matched or Completed.
C8_SelfHelpFails ==
    \A sender \in Senders, id \in AllIds :
        requests[id].requester = sender =>
            acceptRequestTx(Storage, sender, id).err =
                IF requests[id].status = Open THEN SelfHelpForbidden
                ELSE RequestNotOpen

\* A request of alice that bob has accepted and that was completed.
C8_Witness ==
    \E id \in AllIds :
        /\ requests[id].requester = "alice"
        /\ requests[id].helper = "bob"
        /\ requests[id].status = Completed
        /\ acceptRequestTx(Storage, "alice", id).err = RequestNotOpen

\* C9: completeRequest succeeds only on a Matched request and only for its
\* requester or helper; any other sender fails with NotAuthorized, and the
\* requester or helper of a request that is not Matched fails with
\* RequestNotMatched.
C9_CompletionGating ==
    \A sender \in Senders, id \in AllIds :
        LET res == completeRequestTx(Storage, sender, id)
        IN  /\ res.err = OK =>
                   requests[id].status = Matched /\ Party(sender, id)
            /\ ~Party(sender, id) => res.err = NotAuthorized
            /\ Party(sender, id) /\ requests[id].status # Matched =>
                   res.err = RequestNotMatched

\* A Matched request, its two parties and a third account: the parties can
\* complete it, the third account is refused.
C9_Witness ==
    \E id \in AllIds, other \in Senders :
        /\ Allocated(id)
        /\ requests[id].status = Matched
        /\ users[other].exists
        /\ ~Party(other, id)
        /\ completeRequestTx(Storage, other, id).err = NotAuthorized
        /\ completeRequestTx(Storage, requests[id].helper, id).err = OK

RECURSIVE ReviewsTargeting(_, _)
ReviewsTargeting(a, ids) ==
    IF ids = {} THEN <<>>
    ELSE LET i == CHOOSE x \in ids : TRUE
         IN  SelectSeq(requestReviews[i], LAMBDA r : r.reviewed = a)
                 \o ReviewsTargeting(a, ids \ {i})

RECURSIVE RatingTotal(_, _)
RatingTotal(reviews, n) ==
    IF n = 0 THEN 0 ELSE reviews[n].rating + RatingTotal(reviews, n - 1)

\* C11: an account that exists has a trust score in 20..100 once a review
\* of it is stored, and exactly 50 while none is.
C11_TrustScoreBounds ==
    \A a \in Addresses :
        users[a].exists =>
            IF Len(ReviewsTargeting(a, AllIds)) >= 1
            THEN users[a].trustScore \in 20..100
            ELSE users[a].trustScore = 50

\* Both ends of the range: an account reviewed twice with 1, another once
\* with 5.
C11_Witness ==
    \E a, b \in Senders :
        /\ users[a].exists /\ users[b].exists
        /\ Len(userReviews[a]) = 2 /\ users[a].trustScore = 20
        /\ Len(userReviews[b]) = 1 /\ users[b].trustScore = 100

\* C12: the trust score of an identity with at least one stored review is
\* floor(20 * sum / count) over all the ratings stored for it.
C12_TrustScoreFormula ==
    \A a \in Addresses :
        LET reviews == ReviewsTargeting(a, AllIds)
        IN  Len(reviews) >= 1 =>
                /\ userReviews[a] = reviews
                /\ users[a].trustScore =
                       (20 * RatingTotal(reviews, Len(reviews)))
                           \div Len(reviews)

\* Three reviews of one account whose average is no integer and whose
\* score, 20 * 10 / 3 = 66, no running average of 50, 20, 80 and 100 gives.
C12_Witness ==
    \E a \in Senders :
        /\ Len(userReviews[a]) = 3
        /\ RatingTotal(userReviews[a], 3) = 10
        /\ users[a].trustScore = 66

\* The state after registerUser by alice and by bob, createRequest of help
\* type 0 by alice, acceptRequest(1) by bob and completeRequest(1) by alice
\* (the names given at registration are not compared).
ScenarioA ==
    /\ requestCount = 1
    /\ requests[1] = [id |-> 1, requester |-> "alice", location |-> "Paris",
                      status |-> Completed, helper |-> "bob", helpType |-> 0]
    /\ users["alice"].exists /\ users["bob"].exists
    /\ users["alice"].credits = 8 /\ users["alice"].totalReceived = 1
    /\ users["bob"].credits = 11 /\ users["bob"].totalHelps = 1
    /\ users["alice"].trustScore = 50 /\ users["bob"].trustScore = 50
    /\ requestReviews[1] = <<>>
    /\ userReviews["alice"] = <<>> /\ userReviews["bob"] = <<>>

\* The two reviews of the scenario, in their order, from storage s.
ScenarioC(s) ==
    LET first == submitReviewTx(s, "bob", 1, "alice", 5)
        mid == Commit(s, first)
        second == submitReviewTx(mid, "alice", 1, "bob", 4)
    IN  [first |-> first.err, second |-> second.err,
         st |-> Commit(mid, second)]

\* C13: after the scenario, submitReview(1, reviewed alice, 5) by bob and
\* then submitReview(1, reviewed bob, 4) by alice both succeed, and the
\* trust score of alice is 80 and that of bob 100.
C13_ScenarioScores ==
    ScenarioA =>
        LET c == ScenarioC(Storage)
        IN  /\ c.first = OK /\ c.second = OK
            /\ c.st.users["alice"].trustScore = 80
            /\ c.st.users["bob"].trustScore = 100

\* C13 as amended: both reviews succeed; alice, whom bob rated 5, has trust
\* score 100 and bob, whom alice rated 4, has 80.
C13_ScenarioScoresByReviewed ==
    ScenarioA =>
        LET c == ScenarioC(Storage)
        IN  /\ c.first = OK /\ c.second = OK
            /\ c.st.users["alice"].trustScore = 100
            /\ c.st.users["bob"].trustScore = 80

\* The state the two reviews of the scenario lead to.
C13_Witness ==
    /\ requestCount = 1
    /\ requests[1].requester = "alice" /\ requests[1].helper = "bob"
    /\ requests[1].helpType = 0 /\ requests[1].status = Completed
    /\ users["alice"].credits = 8 /\ users["bob"].credits = 11
    /\ requestReviews[1] =
           <<[reviewer |-> "bob", reviewed |-> "alice",
              requestId |-> 1, rating |-> 5],
             [reviewer |-> "alice", reviewed |-> "bob",
              requestId |-> 1, rating |-> 4]>>
    /\ users["alice"].trustScore = 100
    /\ users["bob"].trustScore = 80

\* ---------------------------------------------------------------- reviews

\* C14: every stored review is filed under the id of a request that
\* createRequest created and that is Completed, and its reviewer and
\* reviewed are the requester and the helper of that request, in one order
\* or the other.
C14_ReviewsOfCompletedRequests ==
    \A id \in AllIds :
        \A k \in 1..Len(requestReviews[id]) :
            LET review == requestReviews[id][k]
                request == requests[id]
            IN  /\ Allocated(id)
                /\ request.status = Completed
                /\ \/ /\ review.reviewer = request.requester
                      /\ review.reviewed = request.helper
                   \/ /\ review.reviewer = request.helper
                      /\ review.reviewed = request.requester

\* Whether (sender, reviewed) is (requester, helper) or (helper, requester)
\* of the record of id.
ReviewPair(sender, reviewed, id) ==
    \/ sender = requests[id].requester /\ reviewed = requests[id].helper
    \/ sender = requests[id].helper /\ reviewed = requests[id].requester

\* C15: submitReview with a rating in 1..5 on a created request that is not
\* Completed fails with RequestNotCompleted whoever the reviewer and the
\* reviewed are, stores no review and changes no trust score.
C15_NotCompletedWhoeverReviews ==
    \A id \in AllIds :
        Allocated(id) /\ requests[id].status # Completed =>
            \A sender \in Senders, reviewed \in Addresses, rating \in 1..5 :
                LET res == submitReviewTx(Storage, sender, id, reviewed,
                                          rating)
                IN  /\ res.err = RequestNotCompleted
                    /\ Commit(Storage, res) = Storage

\* C15 as amended: such a submitReview always fails, stores no review and
\* changes no trust score; it fails with RequestNotCompleted when reviewer
\* and reviewed are the requester and the helper on record, in one order or
\* the other, and with InvalidReviewPair when they are not.
C15_NotCompletedFails ==
    \A id \in AllIds :
        Allocated(id) /\ requests[id].status # Completed =>
            \A sender \in Senders, reviewed \in Addresses, rating \in 1..5 :
                LET res == submitReviewTx(Storage, sender, id, reviewed,
                                          rating)
                    post == Commit(Storage, res)
                IN  /\ res.err = IF ReviewPair(sender, reviewed, id)
                                 THEN RequestNotCompleted
                                 ELSE InvalidReviewPair
                    /\ post.requestReviews = requestReviews
                    /\ post.userReviews = userReviews
                    /\ post.users = users

\* A Matched request of the allocated ids: its helper reviewing its
\* requester is told the request is not completed, a third account
\* reviewing the requester is told the pair is wrong.
C15_Witness ==
    \E id \in AllIds, other \in Senders :
        /\ Allocated(id)
        /\ requests[id].status = Matched
        /\ users[other].exists
        /\ ~Party(other, id)
        /\ submitReviewTx(Storage, requests[id].helper, id,
                          requests[id].requester, 5).err = RequestNotCompleted
        /\ submitReviewTx(Storage, other, id,
                          requests[id].requester, 5).err = InvalidReviewPair

\* ------------------------------------------------ effects of the commands

\* The account the sender of createRequest or acceptRequest acts with: its
\* own, or the one auto-registration writes, with the location given.
AccountOf(sender, location) ==
    IF users[sender].exists THEN users[sender]
    ELSE [name |-> "", location |-> location, trustScore |-> 50,
          totalHelps |-> 0, totalReceived |-> 0, credits |-> 10,
          exists |-> TRUE]

\* C16: a successful createRequest of help type t takes 2, 5 or 3 credits
\* (t = 0, 1, 2) from its sender, adds 1 to the request counter, stores
\* under the new counter value a record that is Open, has no helper and
\* has the sender as requester, adds 1 to the sender's total-received
\* counter, and changes no other account and no other request record.
C16_CreateRequestEffects ==
    \A sender \in Senders, location \in LocationInputs,
       helpType \in HelpTypeInputs :
        LET res == createRequestTx(Storage, sender, location, helpType)
            post == Commit(Storage, res)
            before == AccountOf(sender, location)
            n == requestCount + 1
        IN  res.err = OK =>
                /\ helpType \in {0, 1, 2}
                /\ post.users[sender] =
                       [before EXCEPT
                          !.credits = @ - (CASE helpType = 0 -> 2
                                             [] helpType = 1 -> 5
                                             [] helpType = 2 -> 3),
                          !.totalReceived = @ + 1]
                /\ post.requestCount = n
                /\ post.requests[n].id = n
                /\ post.requests[n].status = Open
                /\ post.requests[n].helper = ZERO
                /\ post.requests[n].requester = sender
                /\ post.requests[n].helpType = helpType
                /\ \A a \in Addresses \ {sender} :
                       post.users[a] = users[a]
                /\ \A i \in AllIds \ {n} : post.requests[i] = requests[i]
                /\ post.requestReviews = requestReviews
                /\ post.userReviews = userReviews

\* An account after a request of help type 0 and one of help type 1:
\* balance 10 - 2 - 5, two requests received, both records Open or later.
C16_Witness ==
    \E a \in Senders :
        /\ requestCount = 2
        /\ requests[1].requester = a /\ requests[1].helpType = 0
        /\ requests[2].requester = a /\ requests[2].helpType = 1
        /\ requests[2].status = Open /\ requests[2].helper = ZERO
        /\ users[a].credits = 3
        /\ users[a].totalReceived = 2

\* C17: a successful acceptRequest sets the helper of the request to its
\* sender and the status to Matched, adds 1 to the sender's balance and 1
\* to the sender's total-helped counter, and changes no other account (the
\* requester's included) and no other request.
C17_AcceptRequestEffects ==
    \A sender \in Senders, id \in AllIds :
        LET res == acceptRequestTx(Storage, sender, id)
            post == Commit(Storage, res)
            before == AccountOf(sender, "")
        IN  res.err = OK =>
                /\ post.requests[id] =
                       [requests[id] EXCEPT !.helper = sender,
                                            !.status = Matched]
                /\ post.users[sender] =
                       [before EXCEPT !.credits = @ + 1,
                                      !.totalHelps = @ + 1]
                /\ requests[id].requester # sender
                /\ \A a \in Addresses \ {sender} :
                       post.users[a] = users[a]
                /\ \A i \in AllIds \ {id} : post.requests[i] = requests[i]
                /\ post.requestCount = requestCount
                /\ post.requestReviews = requestReviews
                /\ post.userReviews = userReviews

\* A created request that an account without earlier activity has
\* accepted: the helper has 11 credits and one help, the requester still
\* has what createRequest left.
C17_Witness ==
    \E id \in AllIds :
        LET request == requests[id]
        IN  /\ Allocated(id)
            /\ request.status = Matched
            /\ request.helpType = 1
            /\ users[request.helper].credits = 11
            /\ users[request.helper].totalHelps = 1
            /\ users[request.helper].name = ""
            /\ users[request.requester].credits = 5

\* C18: completeRequest, failed or not, changes no account, no review and
\* not the request counter; when it succeeds the only change is the status
\* of its request, from Matched to Completed.
C18_CompleteRequestFrame ==
    \A sender \in Senders, id \in AllIds :
        LET res == completeRequestTx(Storage, sender, id)
            post == Commit(Storage, res)
        IN  /\ post.users = users
            /\ post.requestReviews = requestReviews
            /\ post.userReviews = userReviews
            /\ post.requestCount = requestCount
            /\ post.userAddresses = userAddresses
            /\ IF res.err = OK
               THEN /\ requests[id].status = Matched
                    /\ post.requests =
                           [requests EXCEPT ![id].status = Completed]
               ELSE post.requests = requests

\* A completed request of help type 2 whose requester and helper have the
\* balances createRequest and acceptRequest left them, 7 and 11.
C18_Witness ==
    \E id \in AllIds :
        LET request == requests[id]
        IN  /\ Allocated(id)
            /\ request.status = Completed
            /\ request.helpType = 2
            /\ users[request.requester].credits = 7
            /\ users[request.helper].credits = 11
            /\ users[request.helper].totalHelps = 1

\* C19: ids are allocated 1, 2, 3, ... in creation order.  The request
\* counter never decreases and a step adds at most 1 to it; the request a
\* step creates is stored under the previous counter plus 1, an id above
\* every id allocated before; the record under an allocated id i has id
\* field i; and the id, requester and help type of a created request do
\* not change in any later step.
C19_IdsSequential ==
    [][/\ requestCount' \in {requestCount, requestCount + 1}
       /\ \A i \in AllIds :
              (i >= 1 /\ i <= requestCount') => requests'[i].id = i
       /\ requestCount' = requestCount + 1 =>
              /\ ~Allocated(requestCount')
              /\ requests'[requestCount'].status = Open
       /\ \A i \in AllIds :
              Allocated(i) =>
                  /\ requests'[i].id = requests[i].id
                  /\ requests'[i].requester = requests[i].requester
                  /\ requests'[i].helpType = requests[i].helpType]_vars

\* Three requests, the second a repeat of the first with the same sender,
\* location and help type, under the ids 1, 2 and 3; the first has been
\* matched since.
C19_Witness ==
    /\ requestCount = 3
    /\ requests[2] = [requests[1] EXCEPT !.id = 2, !.status = Open,
                                         !.helper = ZERO]
    /\ requests[1].status = Matched
    /\ requests[1].id = 1
    /\ requests[3].id = 3

\* C20: registerUser by a sender that has an account fails with
\* AlreadyRegistered and leaves the account as it is, also when the account
\* was written by the auto-registration of createRequest or acceptRequest.
C20_RegisterTwiceFails ==
    \A sender \in Senders, name \in NameInputs,
       location \in LocationInputs :
        users[sender].exists =>
            LET res == registerUserTx(Storage, sender, name, location)
            IN  /\ res.err = AlreadyRegistered
                /\ Commit(Storage, res).users[sender] = users[sender]
                /\ Commit(Storage, res) = Storage

\* Two accounts that registerUser did not write (it gives the name of
\* NameInputs): one auto-registered by createRequest, one by acceptRequest,
\* and registerUser refused to both.
C20_Witness ==
    \E a, b \in Senders :
        /\ users[a].exists /\ users[a].name = ""
        /\ users[a].totalReceived = 1 /\ users[a].location = "Paris"
        /\ users[b].exists /\ users[b].name = ""
        /\ users[b].totalHelps = 1 /\ users[b].location = ""
        /\ registerUserTx(Storage, a, "Alice", "Paris").err
               = AlreadyRegistered
        /\ registerUserTx(Storage, b, "Alice", "Paris").err
               = AlreadyRegistered

\* --------------------------------------------------------------- accounts

\* The schedule of costs as the constructor writes it.
ScheduleCost(helpType) ==
    CASE helpType = 0 -> 2 [] helpType = 1 -> 5 [] helpType = 2 -> 3

\* C21: an account starts with balance 10, trust score 50 and both
\* counters 0, whether registerUser or auto-registration writes it: for a
\* sender without an account, registerUser leaves exactly that, a
\* successful createRequest of help type t leaves balance 10 - cost(t), and
\* a successful acceptRequest leaves balance 11.
C21_InitialAccount ==
    \A sender \in Senders :
        ~users[sender].exists =>
            /\ \A name \in NameInputs, location \in LocationInputs :
                   LET res == registerUserTx(Storage, sender, name, location)
                       account == Commit(Storage, res).users[sender]
                   IN  /\ res.err = OK
                       /\ account.exists
                       /\ account.credits = 10
                       /\ account.trustScore = 50
                       /\ account.totalHelps = 0
                       /\ account.totalReceived = 0
            /\ \A location \in LocationInputs, helpType \in HelpTypeInputs :
                   LET res == createRequestTx(Storage, sender, location,
                                              helpType)
                       account == Commit(Storage, res).users[sender]
                   IN  res.err = OK =>
                           /\ account.exists
                           /\ account.credits = 10 - ScheduleCost(helpType)
                           /\ account.trustScore = 50
                           /\ account.totalHelps = 0
                           /\ account.totalReceived = 1
            /\ \A id \in AllIds :
                   LET res == acceptRequestTx(Storage, sender, id)
                       account == Commit(Storage, res).users[sender]
                   IN  res.err = OK =>
                           /\ account.exists
                           /\ account.credits = 11
                           /\ account.trustScore = 50
                           /\ account.totalHelps = 1
                           /\ account.totalReceived = 0

\* Three accounts in their first state: one written by registerUser, one
\* by a createRequest of help type 1, one by an acceptRequest.
C21_Witness ==
    \E a, b, c \in Senders :
        /\ users[a].name = "Alice" /\ users[a].credits = 10
        /\ users[a].totalHelps = 0 /\ users[a].totalReceived = 0
        /\ users[b].name = "" /\ users[b].credits = 5
        /\ users[b].totalReceived = 1 /\ users[b].trustScore = 50
        /\ users[c].name = "" /\ users[c].credits = 11
        /\ users[c].totalHelps = 1 /\ users[c].trustScore = 50

\* C22: an account is never deleted, and its name and location are those
\* the command that created it gave it: no later step changes them.
C22_AccountsKept ==
    [][\A a \in Addresses :
           users[a].exists =>
               /\ users'[a].exists
               /\ users'[a].name = users[a].name
               /\ users'[a].location = users[a].location]_vars

\* An account that registerUser wrote and that has accepted a request
\* since: acceptRequest has left its name and location.
C22_Witness ==
    \E a \in Senders :
        /\ users[a].exists
        /\ users[a].name = "Alice" /\ users[a].location = "Paris"
        /\ users[a].totalHelps = 1
        /\ users[a].credits = 11

\* C23: createRequest fails with InvalidHelpType for a help type outside
\* {0, 1, 2} whatever the balance; for a help type of the schedule it fails
\* with InsufficientCredit exactly when the sender's balance (10 for a
\* sender without an account) is below the cost, and succeeds otherwise.
C23_CreateRequestOutcome ==
    \A sender \in Senders, location \in LocationInputs,
       helpType \in HelpTypeInputs \cup {4} :
        LET balance == IF users[sender].exists THEN users[sender].credits
                       ELSE 10
        IN  createRequestTx(Storage, sender, location, helpType).err =
                IF helpType \notin {0, 1, 2} THEN InvalidHelpType
                ELSE IF balance < ScheduleCost(helpType)
                THEN InsufficientCredit
                ELSE OK

\* An account whose balance is exactly the cost of help type 1: its
\* request of that type is accepted, one of type 3 is refused as invalid,
\* and an account with less than the cost is refused for its balance.
C23_Witness ==
    \E a, b \in Senders :
        /\ users[a].exists /\ users[a].credits = 5
        /\ createRequestTx(Storage, a, "Paris", 1).err = OK
        /\ createRequestTx(Storage, a, "Paris", 3).err = InvalidHelpType
        /\ users[b].exists /\ users[b].credits = 1
        /\ createRequestTx(Storage, b, "Paris", 0).err = InsufficientCredit
        /\ createRequestTx(Storage, b, "Paris", 3).err = InvalidHelpType

\* ---------------------------------------------------------------- queries

\* C24: in every state getCreditCost returns 2, 5, 3 for the help types 0,
\* 1, 2 and fails with InvalidHelpType for every other help type.
C24_CostQuery ==
    \A helpType \in HelpTypeInputs \cup {4} :
        LET res == getCreditCost(Storage, helpType)
        IN  IF helpType \in {0, 1, 2}
            THEN res.err = OK /\ res.value = ScheduleCost(helpType)
            ELSE res.err = InvalidHelpType

\* C25: completeRequest, and submitReview with a rating in 1..5, on an id
\* that createRequest has not allocated fail with RequestNotFound and
\* change nothing.
C25_UnknownIdNotFound ==
    \A id \in AllIds :
        ~Allocated(id) =>
            /\ \A sender \in Senders :
                   LET res == completeRequestTx(Storage, sender, id)
                   IN  /\ res.err = RequestNotFound
                       /\ Commit(Storage, res) = Storage
            /\ \A sender \in Senders, reviewed \in Addresses,
                  rating \in 1..5 :
                   LET res == submitReviewTx(Storage, sender, id, reviewed,
                                             rating)
                   IN  /\ res.err = RequestNotFound
                       /\ Commit(Storage, res) = Storage

\* C30: getOpenRequests returns the records of the allocated ids whose
\* status is Open, each once and in ascending order of id, and leaves the
\* storage as it is.
C30_OpenRequestsQuery ==
    LET res == getOpenRequests(Storage)
        open == res.value
    IN  /\ res.err = OK
        /\ res.st = Storage
        /\ \A k \in 1..Len(open) :
               /\ Allocated(open[k].id)
               /\ open[k] = requests[open[k].id]
               /\ open[k].status = Open
        /\ \A k \in 1..(Len(open) - 1) : open[k].id < open[k + 1].id
        /\ \A i \in AllIds :
               Allocated(i) /\ requests[i].status = Open =>
                   \E k \in 1..Len(open) : open[k].id = i

\* Three requests, the first no longer Open: the query returns the second
\* and the third, in that order.
C30_Witness ==
    /\ requestCount = 3
    /\ requests[1].status = Completed
    /\ getOpenRequests(Storage).value = <<requests[2], requests[3]>>
    /\ requests[2].id = 2 /\ requests[3].id = 3

\* ------------------------------------------------- effects of submitReview

\* C26: submitReview with a rating outside 1..5 fails with InvalidRating
\* whatever the id, the status of its record and the reviewer and reviewed,
\* and changes nothing; every rating stored is in 1..5.
C26_InvalidRatingRejected ==
    /\ \A sender \in Senders, id \in AllIds, reviewed \in Addresses,
          rating \in {0, 6, 7} :
           LET res == submitReviewTx(Storage, sender, id, reviewed, rating)
           IN  /\ res.err = InvalidRating
               /\ Commit(Storage, res) = Storage
    /\ \A id \in AllIds :
           \A k \in 1..Len(requestReviews[id]) :
               requestReviews[id][k].rating \in 1..5
    /\ \A a \in Addresses :
           \A k \in 1..Len(userReviews[a]) :
               userReviews[a][k].rating \in 1..5

\* A Completed request with reviews rated 1 and 5 stored, whose helper is
\* refused the ratings 0 and 6 for its requester.
C26_Witness ==
    \E id \in AllIds :
        LET request == requests[id]
        IN  /\ Allocated(id)
            /\ request.status = Completed
            /\ \E j, k \in 1..Len(requestReviews[id]) :
                   /\ requestReviews[id][j].rating = 1
                   /\ requestReviews[id][k].rating = 5
            /\ submitReviewTx(Storage, request.helper, id,
                              request.requester, 0).err = InvalidRating
            /\ submitReviewTx(Storage, request.helper, id,
                              request.requester, 6).err = InvalidRating

\* C27: a successful submitReview appends one review to the reviews of the
\* request and to the reviews of the reviewed identity and writes the trust
\* score of the reviewed identity; balances, counters, the other fields and
\* accounts, the request records and the request counter stay as they are.
C27_SubmitReviewFrame ==
    \A sender \in Senders, id \in AllIds, reviewed \in Addresses,
       rating \in 1..5 :
        LET res == submitReviewTx(Storage, sender, id, reviewed, rating)
            post == Commit(Storage, res)
            review == [reviewer |-> sender, reviewed |-> reviewed,
                       requestId |-> id, rating |-> rating]
        IN  res.err = OK =>
                /\ post.requestReviews =
                       [requestReviews EXCEPT ![id] = Append(@, review)]
                /\ post.userReviews =
                       [userReviews EXCEPT ![reviewed] = Append(@, review)]
                /\ post.users =
                       [users EXCEPT ![reviewed].trustScore =
                                         post.users[reviewed].trustScore]
                /\ post.requests = requests
                /\ post.requestCount = requestCount
                /\ post.userAddresses = userAddresses

\* A request with one review, rated 1, of its requester by its helper: the
\* requester's score is 20, the helper's is still 50, and the balances are
\* those createRequest and acceptRequest left.
C27_Witness ==
    \E id \in AllIds :
        LET request == requests[id]
        IN  /\ Allocated(id)
            /\ requestReviews[id] =
                   <<[reviewer |-> request.helper,
                      reviewed |-> request.requester,
                      requestId |-> id, rating |-> 1]>>
            /\ users[request.requester].trustScore = 20
            /\ users[request.requester].credits = 8
            /\ users[request.helper].trustScore = 50
            /\ users[request.helper].credits = 11

\* C28: on a Completed request a review of one party by the other succeeds
\* however many reviews the same reviewer has stored for it; each is
\* appended as a review of its own and counts in the recomputed score.
C28_NoUniquenessGuard ==
    \A id \in AllIds :
        requests[id].status = Completed =>
            \A sender \in Senders, reviewed \in Addresses, rating \in 1..5 :
                ReviewPair(sender, reviewed, id) =>
                    LET res == submitReviewTx(Storage, sender, id, reviewed,
                                              rating)
                        post == Commit(Storage, res)
                        before == userReviews[reviewed]
                    IN  /\ res.err = OK
                        /\ Len(post.requestReviews[id]) =
                               Len(requestReviews[id]) + 1
                        /\ Len(post.userReviews[reviewed]) = Len(before) + 1
                        /\ post.users[reviewed].trustScore =
                               (20 * (RatingTotal(before, Len(before))
                                          + rating)) \div (Len(before) + 1)

\* Three reviews of the requester by the helper stored for one request,
\* two of them equal, all three counted, 20 * (5 + 5 + 1) / 3 = 73, and a
\* fourth one accepted.
C28_Witness ==
    \E id \in AllIds :
        LET request == requests[id]
            reviews == requestReviews[id]
        IN  /\ Allocated(id)
            /\ Len(reviews) = 3
            /\ \A k \in 1..3 : /\ reviews[k].reviewer = request.helper
                                /\ reviews[k].reviewed = request.requester
            /\ reviews[1] = reviews[2]
            /\ reviews[1].rating = 5 /\ reviews[3].rating = 1
            /\ users[request.requester].trustScore = 73
            /\ submitReviewTx(Storage, request.helper, id,
                              request.requester, 5).err = OK

\* The reviews of request id that target u are the reviews of u that are
\* filed for request id, in the same order, and every review is stored
\* under its own request id and its own reviewed identity.
ReviewsAgree(rr, ur) ==
    /\ \A id \in AllIds, u \in Addresses :
           SelectSeq(rr[id], LAMBDA r : r.reviewed = u)
               = SelectSeq(ur[u], LAMBDA r : r.requestId = id)
    /\ \A id \in AllIds :
           \A k \in 1..Len(rr[id]) : rr[id][k].requestId = id
    /\ \A u \in Addresses :
           \A k \in 1..Len(ur[u]) : ur[u][k].reviewed = u

\* Sequence new is old, or old with one element appended.
GrownByAppend(old, new) ==
    \/ new = old
    \/ Len(new) = Len(old) + 1 /\ SubSeq(new, 1, Len(old)) = old

\* C29: the reviews stored per request and per reviewed identity are the
\* same reviews; each collection changes only by an append, so a stored
\* review is never modified or removed.
C29_ReviewCollectionsAgree ==
    [][/\ ReviewsAgree(requestReviews', userReviews')
       /\ \A id \in AllIds :
              GrownByAppend(requestReviews[id], requestReviews'[id])
       /\ \A u \in Addresses :
              GrownByAppend(userReviews[u], userReviews'[u])]_vars

\* Reviews in both directions for one request: three under the request,
\* two of them under its requester and one under its helper.
C29_Witness ==
    \E id \in AllIds :
        /\ Allocated(id)
        /\ Len(requestReviews[id]) = 3
        /\ Len(userReviews[requests[id].requester]) = 2
        /\ Len(userReviews[requests[id].helper]) = 1

\* C31: getUserRequests(user) returns the records of the allocated ids,
\* of any status, whose requester or helper is user, each once and in
\* ascending order of id.
C31_UserRequestsQuery ==
    \A user \in Addresses :
        LET res == getUserRequests(Storage, user)
            found == res.value
        IN  /\ res.err = OK
            /\ res.st = Storage
            /\ \A k \in 1..Len(found) :
                   /\ Allocated(found[k].id)
                   /\ found[k] = requests[found[k].id]
                   /\ found[k].requester = user \/ found[k].helper = user
            /\ \A k \in 1..(Len(found) - 1) : found[k].id < found[k + 1].id
            /\ \A i \in AllIds :
                   Allocated(i) /\ Party(user, i) =>
                       \E k \in 1..Len(found) : found[k].id = i

\* Three requests: an account is the helper of the first, which is
\* Completed, and the requester of the second, and has no part in the third;
\* the query returns the first and the second, in that order.
C31_Witness ==
    \E user \in Senders :
        /\ requestCount = 3
        /\ requests[1].helper = user /\ requests[1].status = Completed
        /\ requests[2].requester = user
        /\ ~Party(user, 3)
        /\ getUserRequests(Storage, user).value
               = <<requests[1], requests[2]>>

\* ---------------------------------------------------------- notifications

\* The transaction emits one event, of the kind given, or it fails and
\* emits none.
EmitsOnly(res, kind) ==
    IF res.err = OK
    THEN Len(res.events) = 1 /\ res.events[1][1] = kind
    ELSE res.events = <<>>

\* C32: a successful command emits exactly one event, of its own kind, and
\* a failed command none; and the events of a request id come in the order
\* RequestCreated, RequestMatched, RequestCompleted, ReviewSubmitted: a
\* command that emits RequestMatched for an id finds the id allocated
\* (createRequest emits RequestCreated for an id when it allocates it), one
\* that emits RequestCompleted finds it allocated and accepted before, one
\* that emits ReviewSubmitted finds it allocated and Completed.
C32_Notifications ==
    /\ \A sender \in Senders, name \in NameInputs,
          location \in LocationInputs :
           EmitsOnly(registerUserTx(Storage, sender, name, location),
                     "UserRegistered")
    /\ \A sender \in Senders, location \in LocationInputs,
          helpType \in HelpTypeInputs :
           EmitsOnly(createRequestTx(Storage, sender, location, helpType),
                     "RequestCreated")
    /\ \A sender \in Senders, id \in AllIds :
           LET accept == acceptRequestTx(Storage, sender, id)
               complete == completeRequestTx(Storage, sender, id)
           IN  /\ EmitsOnly(accept, "RequestMatched")
               /\ EmitsOnly(complete, "RequestCompleted")
               /\ accept.err = OK => Allocated(id)
               /\ complete.err = OK =>
                      Allocated(id) /\ everHelper[id] # {}
    /\ \A sender \in Senders, id \in AllIds, reviewed \in Addresses,
          rating \in RatingInputs :
           LET review == submitReviewTx(Storage, sender, id, reviewed,
                                        rating)
           IN  /\ EmitsOnly(review, "ReviewSubmitted")
               /\ review.err = OK =>
                      Allocated(id) /\ requests[id].status = Completed

\* --------------------------------------------------------------- counters

RECURSIVE SumOfHelps(_)
SumOfHelps(S) ==
    IF S = {} THEN 0
    ELSE LET a == CHOOSE x \in S : TRUE
         IN  users[a].totalHelps + SumOfHelps(S \ {a})

\* C33: the number of rewards paid, the sum of the total-helped counters
\* of all accounts, is at most the request counter.
C33_RewardsAtMostRequests == SumOfHelps(Addresses) =< requestCount

\* The schedule costs of the requests among the ids 1..n that a created.
RECURSIVE CostOfRequests(_, _)
CostOfRequests(a, n) ==
    IF n = 0 THEN 0
    ELSE (IF requests[n].requester = a
          THEN ScheduleCost(requests[n].helpType) ELSE 0)
             + CostOfRequests(a, n - 1)

\* C34: the balance of an account is 10, less the schedule costs of the
\* requests it created, plus its total-helped counter.
C34_BalanceEquation ==
    \A a \in Addresses :
        users[a].exists =>
            users[a].credits =
                10 - CostOfRequests(a, requestCount) + users[a].totalHelps

\* An account that has accepted one request and created two, of the help
\* types 0 and 1: 10 - 2 - 5 + 1 = 4.
C34_Witness ==
    \E a \in Senders :
        /\ requestCount = 3
        /\ requests[1].helper = a
        /\ requests[2].requester = a /\ requests[3].requester = a
        /\ requests[2].helpType + requests[3].helpType = 1
        /\ users[a].totalHelps = 1
        /\ users[a].credits = 4

\* C35: the total-helped counter of an account is the number of records of
\* allocated ids that name it as helper, and its total-received counter the
\* number of those that name it as requester.
C35_CountersMatchRecords ==
    \A a \in Addresses :
        users[a].exists =>
            /\ users[a].totalHelps =
                   Cardinality({i \in AllIds :
                                   Allocated(i) /\ requests[i].helper = a})
            /\ users[a].totalReceived =
                   Cardinality({i \in AllIds :
                                   Allocated(i) /\ requests[i].requester = a})

\* C36: a record with a helper has a helper other than its requester, and
\* no stored review has its reviewer as reviewed.
C36_HelperIsNotRequester ==
    /\ \A id \in AllIds :
           requests[id].helper # ZERO =>
               requests[id].helper # requests[id].requester
    /\ \A id \in AllIds :
           \A k \in 1..Len(requestReviews[id]) :
               requestReviews[id][k].reviewer # requestReviews[id][k].reviewed
    /\ \A a \in Addresses :
           \A k \in 1..Len(userReviews[a]) :
               userReviews[a][k].reviewer # userReviews[a][k].reviewed

\* A Completed request with a review by its helper and one by its
\* requester, each of the other.
C36_Witness ==
    \E id \in AllIds :
        LET request == requests[id]
            reviews == requestReviews[id]
        IN  /\ Allocated(id)
            /\ request.status = Completed
            /\ Len(reviews) = 2
            /\ reviews[1].reviewer = request.helper
            /\ reviews[1].reviewed = request.requester
            /\ reviews[2].reviewer = request.requester
            /\ reviews[2].reviewed = request.helper

\* C37: the requester and the helper of every record and the reviewer and
\* the reviewed of every review have an account, and an identity without
\* an account, address(0) included, has no trust score written.
C37_PartiesHaveAccounts ==
    /\ \A id \in AllIds :
           /\ requests[id].requester # ZERO =>
                  users[requests[id].requester].exists
           /\ requests[id].helper # ZERO =>
                  users[requests[id].helper].exists
           /\ \A k \in 1..Len(requestReviews[id]) :
                  /\ users[requestReviews[id][k].reviewer].exists
                  /\ users[requestReviews[id][k].reviewed].exists
    /\ \A a \in Addresses :
           ~users[a].exists => users[a].trustScore = 0

\* --------------------------------------------------------------- progress

\* C38: no created request is stuck.  It is Open, Matched or Completed;
\* while it is Open, acceptRequest by any sender other than its requester
\* succeeds, whatever the sender's balance and with or without an account,
\* and makes it Matched; while it is Matched, completeRequest by its
\* requester and by its helper succeeds and makes it Completed.
C38_NeverStuck ==
    \A id \in AllIds :
        Allocated(id) =>
            /\ requests[id].status \in {Open, Matched, Completed}
            /\ requests[id].status = Open =>
                   \A sender \in Senders \ {requests[id].requester} :
                       LET res == acceptRequestTx(Storage, sender, id)
                       IN  /\ res.err = OK
                           /\ Commit(Storage, res).requests[id].status
                                  = Matched
            /\ requests[id].status = Matched =>
                   \A sender \in {requests[id].requester,
                                  requests[id].helper} :
                       LET res == completeRequestTx(Storage, sender, id)
                       IN  /\ res.err = OK
                           /\ Commit(Storage, res).requests[id].status
                                  = Completed

\* An Open request, an account other than its requester's that has spent
\* all its credits, and a sender without an account: both can accept it.
C38_Witness ==
    \E id \in AllIds, a, b \in Senders :
        /\ Allocated(id)
        /\ requests[id].status = Open
        /\ users[a].exists /\ users[a].credits = 0
        /\ requests[id].requester # a
        /\ acceptRequestTx(Storage, a, id).err = OK
        /\ ~users[b].exists
        /\ acceptRequestTx(Storage, b, id).err = OK

\* C39: userAddresses holds every address that has an account once, and
\* no address without an account.
C39_AddressList ==
    \A a \in Addresses :
        Cardinality({k \in 1..Len(userAddresses) : userAddresses[k] = a})
            = IF users[a].exists THEN 1 ELSE 0

\* Three accounts in the list, in the order of their creation: one that
\* registerUser wrote, one that createRequest and one that acceptRequest
\* auto-registered; a further acceptRequest of the last one has failed or
\* would fail without adding to the list.
C39_Witness ==
    /\ Len(userAddresses) = 3
    /\ users[userAddresses[1]].name = "Alice"
    /\ users[userAddresses[2]].name = ""
    /\ users[userAddresses[2]].totalReceived = 1
    /\ users[userAddresses[3]].name = ""
    /\ users[userAddresses[3]].totalHelps = 1
    /\ \E id \in AllIds :
           /\ acceptRequestTx(Storage, userAddresses[3], id).err
                  = RequestNotOpen
           /\ Commit(Storage,
                     acceptRequestTx(Storage, userAddresses[3], id))
                  .userAddresses = userAddresses

====
